---- MODULE Spec2Model ----
(***************************************************************************)
(* A model of beamz9000: the load classifier and scaler                    *)
(* (beam_plotter.py), the beam geometry (model.py) and the anchor /        *)
(* transform composer (graphics.py).                                       *)
(*                                                                         *)
(* Python numbers are modelled as exact rationals <<n, d>> (d > 0, lowest  *)
(* terms); a raised exception is a value of kind "raise" naming the        *)
(* exception class.  An optional value is <<>> (None) or <<v>>.            *)
(***************************************************************************)
EXTENDS Integers, Sequences, FiniteSets, TLC

VARIABLES nodes, loads, op, arg, ret

vars == <<nodes, loads, op, arg, ret>>

(* ------------------------------ bounds --------------------------------- *)

MaxLoads == 2

MaxNodes == 4

MaxSegments == 3

(* ------------------------- Python numbers ------------------------------ *)

Abs(i) == IF i < 0 THEN -i ELSE i

RECURSIVE Gcd(_, _)
Gcd(a, b) == IF b = 0 THEN a ELSE Gcd(b, a % b)

Rat(n, d) ==
    LET s == IF d < 0 THEN -1 ELSE 1
        g == Gcd(Abs(n), Abs(d))
    IN  <<(s * n) \div g, (s * d) \div g>>

R(i) == <<i, 1>>

RAdd(a, b) == Rat(a[1] * b[2] + b[1] * a[2], a[2] * b[2])

RNeg(a) == <<-a[1], a[2]>>

RMul(a, b) == Rat(a[1] * b[1], a[2] * b[2])

RDiv(a, b) == Rat(a[1] * b[2], a[2] * b[1])

RAbs(a) == <<Abs(a[1]), a[2]>>

RLt(a, b) == a[1] * b[2] < b[1] * a[2]

RLe(a, b) == a[1] * b[2] <= b[1] * a[2]

RZero == R(0)

(* ------------------------- Python values ------------------------------- *)

None == <<>>

Some(v) == <<v>>

Float(r) == [kind |-> "float", v |-> <<r>>, exc |-> ""]

Tuple(a, b) == [kind |-> "tuple", v |-> <<a, b>>, exc |-> ""]

Raise(e) == [kind |-> "raise", v |-> <<>>, exc |-> e]

Str(s) == [kind |-> "str", v |-> <<>>, exc |-> s]

(* a / b on Python numbers: ZeroDivisionError when b is 0 (int or float) *)
TrueDivRaises(b) == b = RZero

(* ------------------------------- Load ---------------------------------- *)

Mags == {-2, 0, 1}

EndMags == {None, Some(-3)}

StartLocs == {0}

EndLocs == {None, Some(4)}

Load(magnitude, start_location, end_location, end_magnitude, moment) ==
    [magnitude |-> magnitude, start_location |-> start_location,
     end_location |-> end_location, end_magnitude |-> end_magnitude,
     moment |-> moment, alpha |-> 0, label |-> None]

Loads ==
    {Load(m, s, el, em, mo) :
        m \in Mags, s \in StartLocs, el \in EndLocs, em \in EndMags, mo \in BOOLEAN}

HasAttr(obj, name) == name \in DOMAIN obj

(* ------------------------- classify_load ------------------------------- *)

classify_load_distributed_first(load) ==
    IF load.end_location # None THEN "DISTRIBUTED"
    ELSE IF load.moment THEN "POINT_MOMENT"
    ELSE "POINT"

classify_load(load) ==
    IF load.moment THEN "POINT_MOMENT"
    ELSE IF load.end_location # None THEN "DISTRIBUTED"
    ELSE "POINT"

(* ----------------------- max_load_magnitudes --------------------------- *)

Categories == {"POINT", "DISTRIBUTED", "POINT_MOMENT"}

Table(p, d, m) == [POINT |-> p, DISTRIBUTED |-> d, POINT_MOMENT |-> m]

Dict(d) == [kind |-> "dict", v |-> d, exc |-> ""]

(* one iteration of the loop body over 'load', magnitudes being the dict so far; *)
(* Load has no attribute start_magnitude, so reading it raises AttributeError    *)
max_load_step_signed(magnitudes, load) ==
    LET load_type == classify_load(load)
        comparison_magnitude == magnitudes[load_type]
    IN  IF load.end_magnitude # None /\ ~HasAttr(load, "start_magnitude")
        THEN Raise("AttributeError")
        ELSE IF RLt(comparison_magnitude, R(load.magnitude))
             THEN Dict([magnitudes EXCEPT ![load_type] = R(load.magnitude)])
             ELSE Dict(magnitudes)

max_load_step(magnitudes, load) ==
    LET load_type == classify_load(load)
        comparison_magnitude == magnitudes[load_type]
        end_larger ==
            RLt(RAbs(R(load.start_magnitude)), RAbs(R(load.end_magnitude[1])))
        scaling_magnitude ==
            IF load.end_magnitude # None /\ end_larger
            THEN RAbs(R(load.end_magnitude[1]))
            ELSE R(load.magnitude)
    IN  IF load.end_magnitude # None /\ ~HasAttr(load, "start_magnitude")
        THEN Raise("AttributeError")
        ELSE IF RLt(comparison_magnitude, RAbs(scaling_magnitude))
             THEN Dict([magnitudes EXCEPT ![load_type] = RAbs(scaling_magnitude)])
             ELSE Dict(magnitudes)

RECURSIVE max_load_loop(_, _, _)
max_load_loop(magnitudes, ls, i) ==
    IF i > Len(ls) THEN Dict(magnitudes)
    ELSE LET r == max_load_step(magnitudes, ls[i])
         IN  IF r.kind = "raise" THEN r ELSE max_load_loop(r.v, ls, i + 1)

max_load_magnitudes(ls) == max_load_loop(Table(RZero, RZero, RZero), ls, 1)

(* ----------------------- get_scaled_magnitude -------------------------- *)

(* branch load_type == "POINT", lines 302-306 *)
scaled_point_signed(load, max_magnitudes, max_depth) ==
    IF TrueDivRaises(max_magnitudes["POINT"]) THEN Raise("ZeroDivisionError")
    ELSE Float(RMul(RDiv(R(load.magnitude), max_magnitudes["POINT"]), max_depth))

scaled_point_zero_unchecked(load, max_magnitudes, max_depth) ==
    IF TrueDivRaises(max_magnitudes["POINT"]) THEN Float(R(load.magnitude))
    ELSE Float(RMul(RAbs(RDiv(RAbs(R(load.magnitude)), max_magnitudes["POINT"])),
                    max_depth))

scaled_point(load, max_magnitudes, max_depth) ==
    LET scaling_load == RAbs(R(load.magnitude))
    IN  IF TrueDivRaises(max_magnitudes["POINT"]) THEN Raise("ZeroDivisionError")
        ELSE LET scaling_factor == RAbs(RDiv(scaling_load, max_magnitudes["POINT"]))
                 load_depth == RMul(scaling_factor, max_depth)
             IN  Float(load_depth)

(* branch load_type == "DISTRIBUTED", lines 307-319 *)
scaled_distributed(load, max_magnitudes, max_depth) ==
    LET start_scaling_load == RAbs(R(load.magnitude))
        has_end == load.end_magnitude # None
        max_d == max_magnitudes["DISTRIBUTED"]
    IN  IF TrueDivRaises(max_d) THEN Raise("ZeroDivisionError")
        ELSE LET start_scaling_factor == RAbs(RDiv(start_scaling_load, max_d))
                 start_load_depth == RMul(start_scaling_factor, max_depth)
             IN  IF has_end
                 THEN LET end_scaling_load == RAbs(R(load.end_magnitude[1]))
                          end_scaling_factor == RAbs(RDiv(end_scaling_load, max_d))
                          end_load_depth == RMul(end_scaling_factor, max_depth)
                      IN  Tuple(start_load_depth, end_load_depth)
                 ELSE Float(start_load_depth)

(* branch load_type == "POINT_MOMENT", lines 320-322: scaling_factor is read *)
(* but was never assigned in this branch                                      *)
scaled_point_moment(load, max_magnitudes, max_depth) ==
    Raise("UnboundLocalError")

get_scaled_magnitude(load, max_magnitudes, max_depth) ==
    LET load_type == classify_load(load)
    IN  IF load_type = "POINT" THEN scaled_point(load, max_magnitudes, max_depth)
        ELSE IF load_type = "DISTRIBUTED"
             THEN scaled_distributed(load, max_magnitudes, max_depth)
             ELSE scaled_point_moment(load, max_magnitudes, max_depth)

(* ------------------------------ Beam ----------------------------------- *)

NodeXs == {0, 3, 10}

Node(x) == [x |-> x]

DefaultNodes == <<Node(0), Node(4)>>

RECURSIVE get_spans_loop(_, _, _, _)
get_spans_loop(ns, idx, prev_loc, spans) ==
    IF idx > Len(ns) THEN spans
    ELSE IF idx = 1 THEN get_spans_loop(ns, 2, ns[1].x, spans)
    ELSE LET current_span == Abs(ns[idx].x - prev_loc)
         IN  get_spans_loop(ns, idx + 1, ns[idx].x, Append(spans, current_span))

get_spans_signed(ns) ==
    [i \in 1..(IF Len(ns) = 0 THEN 0 ELSE Len(ns) - 1) |-> ns[i + 1].x - ns[i].x]

get_spans(ns) == get_spans_loop(ns, 1, 0, <<>>)

RECURSIVE sum(_)
sum(xs) == IF xs = <<>> THEN 0 ELSE xs[1] + sum(Tail(xs))

length(ns) ==
    LET beam_spans == get_spans(ns)
        beam_length == sum(beam_spans)
    IN  beam_length

(* --------------------------- BeamPlotter ------------------------------- *)

BeamDepths == {0, 3}

(* strata["max_load_depth"]: self.beam.depth * 4/3 or self.beam.length / 10 *)
max_load_depth(beam_depth, beam_nodes) ==
    LET by_depth == RDiv(R(beam_depth * 4), R(3))
    IN  IF by_depth # RZero THEN by_depth ELSE RDiv(R(length(beam_nodes)), R(10))

(* the divisions of distributed_load_region: region / beam_length, then *)
(* (end_magnitude - start_magnitude) / region for the first arrow       *)
distributed_load_region_raises(beam_length, start_loc, end_loc) ==
    LET region == end_loc - start_loc
    IN  beam_length = 0 \/ region = 0

Drawn(k, ds, e) == [kind |-> k, v |-> ds, exc |-> e]

RECURSIVE add_loads_loop(_, _, _, _, _, _)
add_loads_loop(ls, i, scaling_loads, max_depth, beam_length, depths) ==
    IF i > Len(ls) THEN Drawn("ok", depths, "")
    ELSE
      LET load == ls[i]
          load_type == classify_load(load)
          display_magnitude == get_scaled_magnitude(load, scaling_loads, max_depth)
      IN  IF display_magnitude.kind = "raise"
          THEN Drawn("raise", depths, display_magnitude.exc)
          ELSE IF load_type = "DISTRIBUTED"
                  /\ distributed_load_region_raises(
                         beam_length, load.start_location, load.end_location[1])
               THEN Drawn("raise", Append(depths, display_magnitude), "ZeroDivisionError")
               ELSE add_loads_loop(ls, i + 1, scaling_loads, max_depth, beam_length,
                                   Append(depths, display_magnitude))

add_loads(beam_nodes, beam_loads, beam_depth) ==
    LET scaling_loads == max_load_magnitudes(beam_loads)
    IN  IF scaling_loads.kind = "raise" THEN Drawn("raise", <<>>, scaling_loads.exc)
        ELSE add_loads_loop(beam_loads, 1, scaling_loads.v,
                            max_load_depth(beam_depth, beam_nodes),
                            length(beam_nodes), <<>>)

(* --------------------------- operations -------------------------------- *)

Tables ==
    {Table(RZero, RZero, RZero), Table(R(2), R(3), R(2)), Table(R(4), RZero, RZero)}

Depths == {R(3), Rat(1, 2)}

NoArg == <<>>

NoRet == Raise("")

(* beam.loads grows by one Load *)
AppendLoad(l) ==
    /\ Len(loads) < MaxLoads
    /\ loads' = Append(loads, l)
    /\ op' = "loads.append"
    /\ arg' = NoArg
    /\ ret' = NoRet
    /\ UNCHANGED nodes

(* classify_load(loads[i]) *)
ClassifyLoad(i) ==
    /\ op' = "classify_load"
    /\ arg' = <<i>>
    /\ ret' = Str(classify_load(loads[i]))
    /\ UNCHANGED <<nodes, loads>>

(* max_load_magnitudes(loads) *)
MaxLoadMagnitudes ==
    /\ op' = "max_load_magnitudes"
    /\ arg' = NoArg
    /\ ret' = max_load_magnitudes(loads)
    /\ UNCHANGED <<nodes, loads>>

(* get_scaled_magnitude(loads[i], t, d) with a caller-supplied maxima table *)
GetScaledMagnitude(i, t, d) ==
    /\ op' = "get_scaled_magnitude"
    /\ arg' = <<i, t, d>>
    /\ ret' = get_scaled_magnitude(loads[i], t, d)
    /\ UNCHANGED <<nodes, loads>>

(* BeamPlotter(Beam(nodes, loads=loads, depth=d)).add_loads(fig, ax) *)
AddLoads(d) ==
    /\ op' = "add_loads"
    /\ arg' = <<d>>
    /\ ret' = add_loads(nodes, loads, d)
    /\ UNCHANGED <<nodes, loads>>

Init ==
    /\ nodes = DefaultNodes
    /\ loads = <<>>
    /\ op = "init"
    /\ arg = NoArg
    /\ ret = NoRet

Next ==
    \/ \E l \in Loads : AppendLoad(l)
    \/ \E i \in 1..Len(loads) : ClassifyLoad(i)
    \/ MaxLoadMagnitudes
    \/ \E i \in 1..Len(loads), t \in Tables, d \in Depths : GetScaledMagnitude(i, t, d)
    \/ \E d \in BeamDepths : AddLoads(d)

Spec == Init /\ [][Next]_vars

(* beam.nodes grows by one Node *)
AppendNode(x) ==
    /\ Len(nodes) < MaxNodes
    /\ nodes' = Append(nodes, Node(x))
    /\ op' = "nodes.append"
    /\ arg' = NoArg
    /\ ret' = NoRet
    /\ UNCHANGED loads

(* beam.get_spans() *)
GetSpans ==
    /\ op' = "get_spans"
    /\ arg' = NoArg
    /\ ret' = get_spans(nodes)
    /\ UNCHANGED <<nodes, loads>>

(* beam.length *)
Length ==
    /\ op' = "length"
    /\ arg' = NoArg
    /\ ret' = length(nodes)
    /\ UNCHANGED <<nodes, loads>>

InitGeom ==
    /\ nodes = <<>>
    /\ loads = <<>>
    /\ op = "init"
    /\ arg = NoArg
    /\ ret = NoRet

NextGeom ==
    \/ \E x \in NodeXs : AppendNode(x)
    \/ GetSpans
    \/ Length

SpecGeom == InitGeom /\ [][NextGeom]_vars

(* ------------------------------ str ------------------------------------ *)

(* a str is the sequence of its characters *)

W_center == <<"c", "e", "n", "t", "e", "r">>

W_right == <<"r", "i", "g", "h", "t">>

W_left == <<"l", "e", "f", "t">>

W_top == <<"t", "o", "p">>

W_bottom == <<"b", "o", "t", "t", "o", "m">>

S_top_left == <<"t", "o", "p", " ", "l", "e", "f", "t">>

S_left_top == <<"l", "e", "f", "t", " ", "t", "o", "p">>

S_center_right == <<"c", "e", "n", "t", "e", "r", " ", "r", "i", "g", "h", "t">>

S_center_center == <<"c", "e", "n", "t", "e", "r", " ", "c", "e", "n", "t", "e", "r">>

S_top_center == <<"t", "o", "p", " ", "c", "e", "n", "t", "e", "r">>

S_bottom_center == <<"b", "o", "t", "t", "o", "m", " ", "c", "e", "n", "t", "e", "r">>

S_bottom_right == <<"b", "o", "t", "t", "o", "m", " ", "r", "i", "g", "h", "t">>

S_right_center == <<"r", "i", "g", "h", "t", " ", "c", "e", "n", "t", "e", "r">>

S_Top_Center == <<"T", "o", "p", " ", "C", "e", "n", "t", "e", "r">>

S_diagonal == <<"d", "i", "a", "g", "o", "n", "a", "l">>

S_top == <<"t", "o", "p">>

S_top_bottom_left == <<"t", "o", "p", " ", "b", "o", "t", "t", "o", "m", " ", "l", "e", "f", "t">>

S_top_bottom == <<"t", "o", "p", " ", "b", "o", "t", "t", "o", "m">>

S_foo_bar == <<"f", "o", "o", " ", "b", "a", "r">>

S_center_foo == <<"c", "e", "n", "t", "e", "r", " ", "f", "o", "o">>

AnchorStrings ==
    {S_top_left, S_left_top, S_center_right, S_center_center,
     S_top_center, S_bottom_center, S_bottom_right, S_right_center,
     S_Top_Center, S_diagonal, S_top, S_top_bottom_left,
     S_top_bottom, S_foo_bar, S_center_foo}

AsciiUpper == <<"A", "B", "C", "D", "E", "F", "G", "H", "I", "J", "K", "L", "M", "N", "O", "P", "Q", "R", "S", "T", "U", "V", "W", "X", "Y", "Z">>

AsciiLower == <<"a", "b", "c", "d", "e", "f", "g", "h", "i", "j", "k", "l", "m", "n", "o", "p", "q", "r", "s", "t", "u", "v", "w", "x", "y", "z">>

(* c.lower() for one character *)
lower_char(c) ==
    IF \E k \in 1..Len(AsciiUpper) : AsciiUpper[k] = c
    THEN AsciiLower[CHOOSE k \in 1..Len(AsciiUpper) : AsciiUpper[k] = c]
    ELSE c

(* str.lower() *)
lower(s) == [k \in 1..Len(s) |-> lower_char(s[k])]

(* sub in s *)
contains(s, sub) ==
    \E k \in 1..(Len(s) - Len(sub) + 1) : SubSeq(s, k, k + Len(sub) - 1) = sub

(* str.split(): the maximal runs of non-whitespace characters *)
RECURSIVE split_loop(_, _, _, _)
split_loop(s, k, word, words) ==
    IF k > Len(s) THEN (IF word = <<>> THEN words ELSE Append(words, word))
    ELSE IF s[k] = " "
         THEN split_loop(s, k + 1, <<>>, IF word = <<>> THEN words ELSE Append(words, word))
         ELSE split_loop(s, k + 1, Append(word, s[k]), words)

split(s) == split_loop(s, 1, <<>>, <<>>)

(* --------------------------- transforms -------------------------------- *)

(* a 2-D affine map <<<<a, c, e>>, <<b, d, f>>>> : (x, y) |-> (a x + c y + e, b x + d y + f) *)
Affine(a, c, e, b, d, f) == <<<<a, c, e>>, <<b, d, f>>>>

IdentityTransform == Affine(R(1), RZero, RZero, RZero, R(1), RZero)

affine_scale(sx, sy) == Affine(sx, RZero, RZero, RZero, sy, RZero)

affine_translate(tx, ty) == Affine(R(1), RZero, tx, RZero, R(1), ty)

transform_point(m, p) ==
    <<RAdd(RAdd(RMul(m[1][1], p[1]), RMul(m[1][2], p[2])), m[1][3]),
      RAdd(RAdd(RMul(m[2][1], p[1]), RMul(m[2][2], p[2])), m[2][3])>>

(* first + second: apply first, then second *)
compose(first, second) ==
    LET row(i) ==
          <<RAdd(RMul(second[i][1], first[1][1]), RMul(second[i][2], first[2][1])),
            RAdd(RMul(second[i][1], first[1][2]), RMul(second[i][2], first[2][2])),
            RAdd(RAdd(RMul(second[i][1], first[1][3]), RMul(second[i][2], first[2][3])),
                 second[i][3])>>
    IN  <<row(1), row(2)>>

get_svg_flip_transform == affine_scale(R(1), R(-1))

get_scale_transform(scale_factor) == affine_scale(scale_factor, scale_factor)

(* ScaledTranslation(xt, yt, scale_trans): translate by scale_trans applied to (xt, yt) *)
ScaledTranslation(xt, yt, scale_trans) ==
    LET t == transform_point(scale_trans, <<xt, yt>>)
    IN  affine_translate(t[1], t[2])

(* ------------------------------ patch ---------------------------------- *)

PathPatch(vertices, transform) == [vertices |-> vertices, transform |-> transform]

set_transform(path_patch, t) == [path_patch EXCEPT !.transform = t]

RMin(S) == CHOOSE a \in S : \A b \in S : RLe(a, b)

RMax(S) == CHOOSE a \in S : \A b \in S : RLe(b, a)

(* patch.get_extents(): the bounding box of the vertices under the patch's transform *)
get_extents(path_patch) ==
    LET pts == {transform_point(path_patch.transform, <<R(v[1]), R(v[2])>>) :
                    v \in {path_patch.vertices[k] : k \in 1..Len(path_patch.vertices)}}
    IN  [xmin |-> RMin({q[1] : q \in pts}), ymin |-> RMin({q[2] : q \in pts}),
         xmax |-> RMax({q[1] : q \in pts}), ymax |-> RMax({q[2] : q \in pts})]

(* ------------------------- get_anchor_point ---------------------------- *)

get_anchor_point(path_patch, location) ==
    LET bbox == get_extents(path_patch)
        loc == lower(location)
        has_center == contains(loc, W_center)
        x0 == IF has_center THEN Some(RDiv(RAdd(bbox.xmax, bbox.xmin), R(2))) ELSE None
        y0 == IF has_center THEN Some(RDiv(RAdd(bbox.ymax, bbox.ymin), R(2))) ELSE None
        x == IF contains(loc, W_right) THEN Some(bbox.xmax)
             ELSE IF contains(loc, W_left) THEN Some(bbox.xmin)
             ELSE x0
        y == IF contains(loc, W_right) \/ contains(loc, W_left) THEN y0
             ELSE IF contains(loc, W_top) THEN Some(bbox.ymax)
             ELSE IF contains(loc, W_bottom) THEN Some(bbox.ymin)
             ELSE y0
    IN  IF Len(split(location)) # 2 THEN Raise("ValueError")
        ELSE IF x = None \/ y = None THEN Raise("UnboundLocalError")
        ELSE Tuple(x[1], y[1])

(* -------------------- get_svg_translation_transform -------------------- *)

Transform(m, path_patch) ==
    [kind |-> "transform", v |-> <<m>>, exc |-> "", patch |-> path_patch]

RaiseWith(e, path_patch) ==
    [kind |-> "raise", v |-> <<>>, exc |-> e, patch |-> path_patch]

get_svg_translation_transform(transData, path_patch, target, anchor_location, scale_factor) ==
    LET svg_flip == get_svg_flip_transform
        flipped_patch == set_transform(path_patch, svg_flip)
        anchor == get_anchor_point(flipped_patch, anchor_location)
    IN  IF anchor.kind = "raise" THEN RaiseWith(anchor.exc, flipped_patch)
        ELSE
          LET svg_anchor_x == anchor.v[1]
              svg_anchor_y == anchor.v[2]
              anchor_to_origin_transform ==
                  affine_translate(RNeg(svg_anchor_x), RNeg(svg_anchor_y))
              scale_transform == get_scale_transform(scale_factor)
              translate_transform == ScaledTranslation(target[1], target[2], transData)
          IN  Transform(
                  compose(compose(compose(svg_flip, anchor_to_origin_transform),
                                  scale_transform),
                          translate_transform),
                  flipped_patch)

OutlineVertices ==
    {<<<<0, 0>>, <<4, 0>>, <<2, 6>>>>,
     <<<<1, 2>>, <<5, 2>>, <<5, 5>>, <<1, 5>>>>,
     <<<<-3, -1>>>>}

PatchTransforms == {IdentityTransform, get_svg_flip_transform}

Patches == {PathPatch(vs, t) : vs \in OutlineVertices, t \in PatchTransforms}

Targets == {<<R(0), R(0)>>, <<R(3), R(-1)>>}

ScaleFactors == {R(1), R(2)}

(* ax.transData: the data-to-display map of the axes *)
TransDatas == {IdentityTransform, Affine(R(2), RZero, R(1), RZero, R(3), R(5))}

AnchorInputs ==
    [transData : TransDatas, path_patch : Patches, target : Targets,
     anchor_location : AnchorStrings, scale_factor : ScaleFactors]

(* get_anchor_point(path_patch, location) on the drawn inputs *)
GetAnchorPoint ==
    /\ op = "init"
    /\ op' = "get_anchor_point"
    /\ ret' = get_anchor_point(arg.path_patch, arg.anchor_location)
    /\ UNCHANGED <<nodes, loads, arg>>

(* get_svg_translation_transform(ax, path_patch, target, anchor_location, scale_factor) *)
GetSvgTranslationTransform ==
    /\ op = "init"
    /\ op' = "get_svg_translation_transform"
    /\ ret' = get_svg_translation_transform(
                  arg.transData, arg.path_patch, arg.target, arg.anchor_location,
                  arg.scale_factor)
    /\ UNCHANGED <<nodes, loads, arg>>

InitAnchor ==
    /\ nodes = <<>>
    /\ loads = <<>>
    /\ op = "init"
    /\ arg \in AnchorInputs
    /\ ret = NoRet

NextAnchor ==
    \/ GetAnchorPoint
    \/ GetSvgTranslationTransform

SpecAnchor == InitAnchor /\ [][NextAnchor]_vars

(* ============================== claims ================================= *)

IntMax(S) == CHOOSE a \in S : \A b \in S : b <= a

(* the category of a load as the specification words it *)
ExpectedCategory(load) ==
    CASE load.moment -> "POINT_MOMENT"
      [] ~load.moment /\ load.end_location # None -> "DISTRIBUTED"
      [] OTHER -> "POINT"

(* the normalization maximum of each category as the specification words it *)
ExpectedMaxima(ls) ==
    [c \in Categories |->
        R(IntMax({0}
            \cup {Abs(ls[k].magnitude) : k \in {j \in 1..Len(ls) : ExpectedCategory(ls[j]) = c}}
            \cup {Abs(ls[k].end_magnitude[1]) :
                    k \in {j \in 1..Len(ls) :
                             ExpectedCategory(ls[j]) = c /\ ls[j].end_magnitude # None}}))]

ExpectedDepth(max_depth, m, category_max) == RDiv(RMul(max_depth, R(Abs(m))), category_max)

(* C1: classify_load answers by the precedence moment, then end_location, then  *)
(* POINT for every combination of the fields; a repeated call on the same Load  *)
(* answers the same; the call changes no field of any Load.                     *)
C1_ClassifyPrecedence ==
    [][/\ op' = "classify_load" =>
            /\ ret' = Str(ExpectedCategory(loads[arg'[1]]))
            /\ loads' = loads
       /\ (op = "classify_load" /\ op' = "classify_load" /\ arg' = arg) => ret' = ret]_vars

C1_Witness ==
    /\ op = "classify_load"
    /\ loads[arg[1]].moment
    /\ loads[arg[1]].end_location # None
    /\ loads[arg[1]].end_magnitude # None
    /\ ret = Str("POINT_MOMENT")

(* the sum of the consecutive distances of the first n nodes *)
RECURSIVE SpanTotal(_, _)
SpanTotal(ns, n) ==
    IF n < 2 THEN 0 ELSE SpanTotal(ns, n - 1) + Abs(ns[n].x - ns[n - 1].x)

(* C2: get_spans is abs(node[i].x - node[i-1].x) in list order, of length       *)
(* node-count - 1 (empty for zero or one node); length is the sum of the spans. *)
C2_SpansInListOrder ==
    /\ op = "get_spans" =>
          /\ Len(ret) = (IF Len(nodes) < 2 THEN 0 ELSE Len(nodes) - 1)
          /\ \A i \in 1..Len(ret) : ret[i] = Abs(nodes[i + 1].x - nodes[i].x)
    /\ op = "length" =>
          /\ Len(nodes) < 2 => ret = 0
          /\ ret = SpanTotal(nodes, Len(nodes))

C2_Witness ==
    /\ op = "get_spans"
    /\ nodes = <<Node(0), Node(3), Node(3), Node(10)>>
    /\ ret = <<3, 0, 7>>

(* the arguments of the last get_scaled_magnitude call *)
ScaledLoad == loads[arg[1]]

ScaledTable == arg[2]

ScaledDepth == arg[3]

(* C3: max_load_magnitudes returns, for each category independently, the max    *)
(* over its loads of the larger of |magnitude| and |end_magnitude| (0 for an    *)
(* empty category), for every load list, end_magnitude set or not.              *)
C3_MaxPerCategory ==
    op = "max_load_magnitudes" => ret = Dict(ExpectedMaxima(loads))

(* C4: for a POINT load and a positive POINT maximum, get_scaled_magnitude      *)
(* returns the single value max_depth * |magnitude| / category_max.             *)
C4_PointDepth ==
    (/\ op = "get_scaled_magnitude"
     /\ ExpectedCategory(ScaledLoad) = "POINT"
     /\ RLt(RZero, ScaledTable["POINT"]))
    => ret = Float(ExpectedDepth(ScaledDepth, ScaledLoad.magnitude, ScaledTable["POINT"]))

C4_Witness ==
    /\ op = "get_scaled_magnitude"
    /\ ExpectedCategory(ScaledLoad) = "POINT"
    /\ ScaledLoad.magnitude = -2
    /\ ScaledTable["POINT"] = R(4)
    /\ ScaledDepth = R(3)
    /\ ret = Float(Rat(3, 2))

(* C5: for a POINT_MOMENT load and a positive POINT_MOMENT maximum,             *)
(* get_scaled_magnitude returns max_depth * |magnitude| / category_max.         *)
C5_MomentDepth ==
    (/\ op = "get_scaled_magnitude"
     /\ ExpectedCategory(ScaledLoad) = "POINT_MOMENT"
     /\ RLt(RZero, ScaledTable["POINT_MOMENT"]))
    => ret = Float(ExpectedDepth(ScaledDepth, ScaledLoad.magnitude,
                                 ScaledTable["POINT_MOMENT"]))

(* C6: for a DISTRIBUTED load and a positive DISTRIBUTED maximum,               *)
(* get_scaled_magnitude returns the pair (start_depth, end_depth), the end      *)
(* depth from end_magnitude when present and from magnitude otherwise.          *)
C6_DistributedPair ==
    (/\ op = "get_scaled_magnitude"
     /\ ExpectedCategory(ScaledLoad) = "DISTRIBUTED"
     /\ RLt(RZero, ScaledTable["DISTRIBUTED"]))
    => ret = Tuple(
           ExpectedDepth(ScaledDepth, ScaledLoad.magnitude, ScaledTable["DISTRIBUTED"]),
           ExpectedDepth(ScaledDepth,
                         IF ScaledLoad.end_magnitude # None
                         THEN ScaledLoad.end_magnitude[1] ELSE ScaledLoad.magnitude,
                         ScaledTable["DISTRIBUTED"]))

(* the magnitude that component c of the depth returned for 'load' scales *)
ComponentMagnitude(load, display_magnitude, c) ==
    IF display_magnitude.kind = "tuple" /\ c = 2 THEN load.end_magnitude[1]
    ELSE load.magnitude

(* C7: with the maxima table computed by max_load_magnitudes over the same list *)
(* and max_depth > 0, every depth get_scaled_magnitude returns for a load of    *)
(* the list lies in [0, max_depth], is positive when its magnitude is nonzero   *)
(* and equals max_depth when the magnitude attains the category's maximum.      *)
C7_DepthsBounded ==
    (op = "add_loads" /\ RLt(RZero, max_load_depth(arg[1], nodes))) =>
        \A k \in 1..Len(ret.v) :
            \A c \in 1..Len(ret.v[k].v) :
                LET max_depth == max_load_depth(arg[1], nodes)
                    depth == ret.v[k].v[c]
                    m == ComponentMagnitude(loads[k], ret.v[k], c)
                    category_max == ExpectedMaxima(loads)[ExpectedCategory(loads[k])]
                IN  /\ RLe(RZero, depth)
                    /\ RLe(depth, max_depth)
                    /\ m # 0 => RLt(RZero, depth)
                    /\ R(Abs(m)) = category_max => depth = max_depth

C7_Witness ==
    /\ op = "add_loads"
    /\ ret.kind = "ok"
    /\ Len(ret.v) = 2
    /\ ExpectedCategory(loads[1]) = ExpectedCategory(loads[2])
    /\ loads[1].magnitude = -2
    /\ loads[2].magnitude = 1
    /\ ret.v[1] = Float(max_load_depth(arg[1], nodes))
    /\ ret.v[2] = Float(RDiv(max_load_depth(arg[1], nodes), R(2)))
    /\ max_load_depth(arg[1], nodes) = Rat(2, 5)

(* C8: when the maximum of the load's category is 0 in the maxima table,        *)
(* get_scaled_magnitude raises and returns no value, in each of the three       *)
(* categories.                                                                  *)
C8_ZeroMaxRejected ==
    (op = "get_scaled_magnitude" /\ ScaledTable[ExpectedCategory(ScaledLoad)] = RZero)
    => (ret.kind = "raise" /\ ret.v = <<>>)

C8_Witness ==
    /\ op = "get_scaled_magnitude"
    /\ ExpectedCategory(ScaledLoad) = "DISTRIBUTED"
    /\ ScaledLoad.magnitude # 0
    /\ ScaledTable["DISTRIBUTED"] = RZero
    /\ ScaledTable["POINT"] # RZero
    /\ ret = Raise("ZeroDivisionError")

(* an anchor specification as the specification words it: two tokens, one      *)
(* vertical (top, bottom, center) and one horizontal (left, right, center), in  *)
(* either order                                                                 *)
VerticalTokens == {W_top, W_bottom, W_center}

HorizontalTokens == {W_left, W_right, W_center}

ValidAnchor(s) ==
    LET t == split(s)
    IN  /\ Len(t) = 2
        /\ \/ t[1] \in VerticalTokens /\ t[2] \in HorizontalTokens
           \/ t[1] \in HorizontalTokens /\ t[2] \in VerticalTokens

VerticalToken(s) ==
    LET t == split(s)
    IN  IF t[1] \in {W_top, W_bottom} THEN t[1]
        ELSE IF t[2] \in {W_top, W_bottom} THEN t[2]
        ELSE W_center

HorizontalToken(s) ==
    LET t == split(s)
    IN  IF t[1] \in {W_left, W_right} THEN t[1]
        ELSE IF t[2] \in {W_left, W_right} THEN t[2]
        ELSE W_center

(* the point of bounding box 'bbox' that a valid anchor specification designates *)
ExpectedAnchor(bbox, s) ==
    <<CASE HorizontalToken(s) = W_left -> bbox.xmin
        [] HorizontalToken(s) = W_right -> bbox.xmax
        [] OTHER -> RDiv(RAdd(bbox.xmin, bbox.xmax), R(2)),
      CASE VerticalToken(s) = W_bottom -> bbox.ymin
        [] VerticalToken(s) = W_top -> bbox.ymax
        [] OTHER -> RDiv(RAdd(bbox.ymin, bbox.ymax), R(2))>>

(* the bounding box of the outline after the vertical flip (x, y) |-> (x, -y) *)
FlippedBBox(vertices) ==
    LET xs == {vertices[k][1] : k \in 1..Len(vertices)}
        ys == {-vertices[k][2] : k \in 1..Len(vertices)}
    IN  [xmin |-> R(-IntMax({-x : x \in xs})), ymin |-> R(-IntMax({-y : y \in ys})),
         xmax |-> R(IntMax(xs)), ymax |-> R(IntMax(ys))]

(* C9: for every valid anchor specification and scale factor > 0 the composed   *)
(* transform maps the anchor point of the flipped bounding box (taken back to   *)
(* outline coordinates) onto the target point, as the axes place it.            *)
C9_AnchorLandsOnTarget ==
    (/\ op = "get_svg_translation_transform"
     /\ ValidAnchor(arg.anchor_location)
     /\ RLt(RZero, arg.scale_factor))
    => /\ ret.kind = "transform"
       /\ LET a == ExpectedAnchor(FlippedBBox(arg.path_patch.vertices), arg.anchor_location)
          IN  transform_point(ret.v[1], <<a[1], RNeg(a[2])>>)
                = transform_point(arg.transData, arg.target)

(* C10: get_anchor_point returns, for every anchor string of one vertical and   *)
(* one horizontal token in either order, the corresponding bounding-box point.  *)
C10_ValidAnchorsParse ==
    (op = "get_anchor_point" /\ ValidAnchor(arg.anchor_location))
    => LET a == ExpectedAnchor(get_extents(arg.path_patch), arg.anchor_location)
       IN  ret = Tuple(a[1], a[2])

(* the anchors that name "center" do land on the target *)
CenterAnchorsLand ==
    (/\ op = "get_svg_translation_transform"
     /\ ValidAnchor(arg.anchor_location)
     /\ W_center \in {split(arg.anchor_location)[1], split(arg.anchor_location)[2]})
    => /\ ret.kind = "transform"
       /\ LET a == ExpectedAnchor(FlippedBBox(arg.path_patch.vertices), arg.anchor_location)
          IN  transform_point(ret.v[1], <<a[1], RNeg(a[2])>>)
                = transform_point(arg.transData, arg.target)

(* C11: every anchor string that is not one vertical and one horizontal token   *)
(* makes get_anchor_point fail with the invalid-anchor error (the ValueError    *)
(* that names the string); it returns no point.                                 *)
C11_InvalidAnchorsRejected ==
    (op = "get_anchor_point" /\ ~ValidAnchor(lower(arg.anchor_location)))
    => ret = Raise("ValueError")

(* ---------------------------- svg_path_parse --------------------------- *)

Digits == <<"0", "1", "2", "3", "4", "5", "6", "7", "8", "9">>

is_alpha(c) ==
    \/ \E k \in 1..Len(AsciiUpper) : AsciiUpper[k] = c
    \/ \E k \in 1..Len(AsciiLower) : AsciiLower[k] = c

(* cmd.islower() / cmd.upper() for one letter *)
is_lower(c) == \E k \in 1..Len(AsciiLower) : AsciiLower[k] = c

upper_char(c) ==
    IF is_lower(c) THEN AsciiUpper[CHOOSE k \in 1..Len(AsciiLower) : AsciiLower[k] = c]
    ELSE c

is_digit(c) == \E k \in 1..Len(Digits) : Digits[k] = c

digit_value(c) == (CHOOSE k \in 1..Len(Digits) : Digits[k] = c) - 1

(* svg_path.replace(" ", ",") *)
replace_spaces(s) == [k \in 1..Len(s) |-> IF s[k] = " " THEN "," ELSE s[k]]

(* re.split("([A-Za-z])", svg_path)[1:] paired up by zip: the <<cmd, values>>  *)
(* of every letter; the text before the first letter is dropped by [1:]        *)
RECURSIVE split_commands(_, _, _)
split_commands(s, k, out) ==
    IF k > Len(s) THEN out
    ELSE IF is_alpha(s[k]) THEN split_commands(s, k + 1, Append(out, <<s[k], <<>>>>))
    ELSE IF out = <<>> THEN split_commands(s, k + 1, out)
    ELSE split_commands(s, k + 1,
             [out EXCEPT ![Len(out)] = <<out[Len(out)][1], Append(out[Len(out)][2], s[k])>>])

(* re.split(r",|\s", values) without its empty strings *)
RECURSIVE split_values(_, _, _, _)
split_values(s, k, word, words) ==
    IF k > Len(s) THEN (IF word = <<>> THEN words ELSE Append(words, word))
    ELSE IF s[k] = "," \/ s[k] = " "
         THEN split_values(s, k + 1, <<>>, IF word = <<>> THEN words ELSE Append(words, word))
         ELSE split_values(s, k + 1, Append(word, s[k]), words)

RECURSIVE digits_value(_, _)
digits_value(ds, acc) ==
    IF ds = <<>> THEN acc ELSE digits_value(Tail(ds), 10 * acc + digit_value(Head(ds)))

RECURSIVE Pow10(_)
Pow10(n) == IF n = 0 THEN 1 ELSE 10 * Pow10(n - 1)

(* float(value): an optional sign, digits, an optional point and digits, with at *)
(* least one digit; None stands for the ValueError of any other text             *)
float(value) ==
    LET signed == value # <<>> /\ value[1] \in {"-", "+"}
        body == IF signed THEN Tail(value) ELSE value
        dots == {k \in 1..Len(body) : body[k] = "."}
        dot == IF dots = {} THEN Len(body) + 1 ELSE CHOOSE k \in dots : TRUE
        whole == SubSeq(body, 1, dot - 1)
        frac == SubSeq(body, dot + 1, Len(body))
        well_formed ==
            /\ Cardinality(dots) <= 1
            /\ \A k \in 1..Len(body) : k \in dots \/ is_digit(body[k])
            /\ Len(whole) + Len(frac) > 0
        magnitude == Rat(digits_value(whole, 0) * Pow10(Len(frac)) + digits_value(frac, 0),
                         Pow10(Len(frac)))
    IN  IF ~well_formed THEN None
        ELSE Some(IF signed /\ value[1] = "-" THEN RNeg(magnitude) ELSE magnitude)

(* an element of the list 'points': a bare number or an (x, y) tuple *)
Num(x) == [pair |-> FALSE, x |-> x, y |-> RZero]

Pair(x, y) == [pair |-> TRUE, x |-> x, y |-> y]

(* list(zip(points[::2], points[1::2])): an odd last number has no partner *)
zip_pairs(points) ==
    [k \in 1..(Len(points) \div 2) |-> Pair(points[2 * k - 1].x, points[2 * k].x)]

(* np.reshape(np.array(points), (-1, 2)): None stands for its ValueError (a list *)
(* mixing numbers and tuples, or an odd count of numbers)                        *)
reshape_pairs(points) ==
    IF \A k \in 1..Len(points) : points[k].pair
    THEN Some([k \in 1..Len(points) |-> <<points[k].x, points[k].y>>])
    ELSE IF (\A k \in 1..Len(points) : ~points[k].pair) /\ Len(points) % 2 = 0
    THEN Some([k \in 1..(Len(points) \div 2) |-> <<points[2 * k - 1].x, points[2 * k].x>>])
    ELSE None

commands(cmd) ==
    CASE cmd = "M" -> Some(<<"MOVETO">>)
      [] cmd = "L" -> Some(<<"LINETO">>)
      [] cmd = "Q" -> Some(<<"CURVE3", "CURVE3">>)
      [] cmd = "C" -> Some(<<"CURVE4", "CURVE4", "CURVE4">>)
      [] cmd = "Z" -> Some(<<"CLOSEPOLY">>)
      [] OTHER -> None

PathOf(vertices, codes) == [kind |-> "path", v |-> vertices, exc |-> "", codes |-> codes]

(* Path(vertices_array, codes_array): the constructor refuses codes whose count *)
(* differs from the vertices' or that do not start with MOVETO                  *)
Path(vertices, codes) ==
    IF Len(codes) # Len(vertices) THEN Raise("ValueError")
    ELSE IF Len(codes) > 0 /\ codes[1] # "MOVETO" THEN Raise("ValueError")
    ELSE PathOf(vertices, codes)

RECURSIVE svg_path_loop(_, _, _, _)
svg_path_loop(cmd_values, i, vertices, codes) ==
    IF i > Len(cmd_values)
    THEN IF vertices = <<>> THEN Raise("ValueError")
         ELSE LET RECURSIVE concatenate(_)
                  concatenate(arrays) ==
                      IF arrays = <<>> THEN <<>>
                      ELSE Head(arrays) \o concatenate(Tail(arrays))
              IN  Path(concatenate(vertices), codes)
    ELSE
      LET cmd == cmd_values[i][1]
          values == cmd_values[i][2]
          floats == [k \in 1..Len(split_values(values, 1, <<>>, <<>>)) |->
                        float(split_values(values, 1, <<>>, <<>>)[k])]
          numbers == [k \in 1..Len(floats) |-> Num(floats[k][1])]
          points == IF values # <<>>
                    THEN IF Len(numbers) > 2 THEN zip_pairs(numbers) ELSE numbers
                    ELSE <<Pair(RZero, RZero)>>
          relative == is_lower(cmd) /\ cmd # "m"
          previous == vertices[Len(vertices)]
          last == previous[Len(previous)]
          resolved == IF relative THEN points \o <<Num(last[1]), Num(last[2])>> ELSE points
          array == reshape_pairs(resolved)
      IN  IF values # <<>> /\ \E k \in 1..Len(floats) : floats[k] = None
          THEN Raise("ValueError")
          ELSE IF relative /\ (vertices = <<>> \/ previous = <<>>) THEN Raise("IndexError")
          ELSE IF commands(upper_char(cmd)) = None THEN Raise("KeyError")
          ELSE IF array = None THEN Raise("ValueError")
          ELSE svg_path_loop(cmd_values, i + 1, Append(vertices, array[1]),
                             codes \o commands(upper_char(cmd))[1])

svg_path_parse(svg_path) ==
    svg_path_loop(split_commands(replace_spaces(svg_path), 1, <<>>), 1, <<>>, <<>>)

(* the path strings: up to MaxSegments of these commands, joined by a space; cmd, *)
(* nums and kind say what each text holds                                         *)
Segment(text, cmd, nums, kind) == [text |-> text, cmd |-> cmd, nums |-> nums, kind |-> kind]

Segments ==
    {Segment(<<"M", "0", ",", "0">>,
            "M", <<R(0), R(0)>>, "ok"),
     Segment(<<"M", "1", " ", "2">>,
            "M", <<R(1), R(2)>>, "ok"),
     Segment(<<"L", "3", ",", "4">>,
            "L", <<R(3), R(4)>>, "ok"),
     Segment(<<"l", "2", ",", "3">>,
            "l", <<R(2), R(3)>>, "ok"),
     Segment(<<"Q", "1", ",", "1", ",", "2", ",", "0">>,
            "Q", <<R(1), R(1), R(2), R(0)>>, "ok"),
     Segment(<<"q", "1", ",", "1", ",", "2", ",", "0">>,
            "q", <<R(1), R(1), R(2), R(0)>>, "ok"),
     Segment(<<"C", "1", ",", "0", ",", "2", ",", "1", ",", "3", ",", "0">>,
            "C", <<R(1), R(0), R(2), R(1), R(3), R(0)>>, "ok"),
     Segment(<<"Z">>,
            "Z", <<>>, "ok"),
     Segment(<<"L", "1", ",", "2", ",", "3", ",", "4">>,
            "L", <<R(1), R(2), R(3), R(4)>>, "ok"),
     Segment(<<"Q", "1", ",", "1", ",", "2", ",", "0", ",", "3", ",", "1", ",", "4", ",", "0">>,
            "Q", <<R(1), R(1), R(2), R(0), R(3), R(1), R(4), R(0)>>, "ok"),
     Segment(<<"L", "1", ".", "5", ",", "-", "2">>,
            "L", <<Rat(3, 2), R(-2)>>, "ok"),
     Segment(<<"L", "1", ",", "2", ",", "3">>,
            "L", <<R(1), R(2), R(3)>>, "odd"),
     Segment(<<"L", "5">>,
            "L", <<R(5)>>, "odd"),
     Segment(<<"X", "1", ",", "2">>,
            "X", <<R(1), R(2)>>, "unknown"),
     Segment(<<"L", "1", ".", ".", "5", ",", "2">>,
            "L", <<>>, "malformed")}

(* the caller writes one more command into the path string *)
AppendSegment(seg) ==
    /\ op = "init"
    /\ Len(arg.segs) < MaxSegments
    /\ arg' = [text |-> IF arg.text = <<>> THEN seg.text ELSE arg.text \o <<" ">> \o seg.text,
               segs |-> Append(arg.segs, seg)]
    /\ UNCHANGED <<nodes, loads, op, ret>>

(* svg_path_parse(svg_path) *)
SvgPathParse ==
    /\ op = "init"
    /\ op' = "svg_path_parse"
    /\ ret' = svg_path_parse(arg.text)
    /\ UNCHANGED <<nodes, loads, arg>>

InitPath ==
    /\ nodes = <<>>
    /\ loads = <<>>
    /\ op = "init"
    /\ arg = [text |-> <<>>, segs |-> <<>>]
    /\ ret = NoRet

NextPath ==
    \/ \E seg \in Segments : AppendSegment(seg)
    \/ SvgPathParse

SpecPath == InitPath /\ [][NextPath]_vars

(* ---- claims about svg_path_parse ---- *)

(* coordinate pairs one segment of a command takes *)
Arity(cmd) ==
    CASE upper_char(cmd) = "M" -> 1
      [] upper_char(cmd) = "L" -> 1
      [] upper_char(cmd) = "Q" -> 2
      [] upper_char(cmd) = "C" -> 3
      [] OTHER -> 0

CodeOf(cmd) ==
    CASE upper_char(cmd) = "M" -> "MOVETO"
      [] upper_char(cmd) = "L" -> "LINETO"
      [] upper_char(cmd) = "Q" -> "CURVE3"
      [] upper_char(cmd) = "C" -> "CURVE4"
      [] OTHER -> "CLOSEPOLY"

(* vertices a command stands for: its coordinate pairs, one for a bare Z *)
SegCount(seg) == IF seg.nums = <<>> THEN 1 ELSE Len(seg.nums) \div 2

(* vertices of the commands before the i-th *)
RECURSIVE Offset(_, _)
Offset(segs, i) == IF i <= 1 THEN 0 ELSE Offset(segs, i - 1) + SegCount(segs[i - 1])

(* every command is readable and carries whole segments of its arity *)
WholeSegments(segs) ==
    /\ segs # <<>>
    /\ segs[1].cmd = "M"
    /\ \A i \in 1..Len(segs) :
          /\ segs[i].kind = "ok"
          /\ Len(segs[i].nums) % 2 = 0
          /\ IF Arity(segs[i].cmd) = 0 THEN segs[i].nums = <<>>
             ELSE /\ segs[i].nums # <<>>
                  /\ (Len(segs[i].nums) \div 2) % Arity(segs[i].cmd) = 0

OneSegmentEach(segs) ==
    \A i \in 1..Len(segs) : Len(segs[i].nums) = 2 * Arity(segs[i].cmd)

(* C12: in a path string of well-formed one-segment commands, every coordinate   *)
(* pair of a relative (lowercase) command comes out as the pair plus the last    *)
(* vertex of the previous command, and the command contributes as many vertices  *)
(* as its absolute form.                                                         *)
C12_RelativeResolved ==
    (/\ op = "svg_path_parse"
     /\ WholeSegments(arg.segs)
     /\ OneSegmentEach(arg.segs)
     /\ \E i \in 1..Len(arg.segs) : is_lower(arg.segs[i].cmd))
    => /\ ret.kind = "path"
       /\ Len(ret.v) = Offset(arg.segs, Len(arg.segs) + 1)
       /\ \A i \in 1..Len(arg.segs) :
             is_lower(arg.segs[i].cmd) =>
                \A j \in 1..Arity(arg.segs[i].cmd) :
                   ret.v[Offset(arg.segs, i) + j] =
                      <<RAdd(arg.segs[i].nums[2 * j - 1], ret.v[Offset(arg.segs, i)][1]),
                        RAdd(arg.segs[i].nums[2 * j], ret.v[Offset(arg.segs, i)][2])>>

(* C13: a path string holding a malformed number, an unknown command letter or   *)
(* a command with an odd count of coordinates yields an error, never an outline. *)
C13_MalformedRejected ==
    (/\ op = "svg_path_parse"
     /\ \E i \in 1..Len(arg.segs) : arg.segs[i].kind # "ok")
    => ret.kind = "raise"

(* C14: for a path string of M, L, Q, C, Z commands each followed by one or more *)
(* whole segments of coordinate pairs, svg_path_parse returns an outline with    *)
(* one command code per vertex, and the vertices of each command carry that      *)
(* command's code (2 per quadratic segment, 3 per cubic segment).                *)
C14_OneCodePerVertex ==
    (/\ op = "svg_path_parse"
     /\ WholeSegments(arg.segs)
     /\ \A i \in 1..Len(arg.segs) : ~is_lower(arg.segs[i].cmd))
    => /\ ret.kind = "path"
       /\ Len(ret.codes) = Len(ret.v)
       /\ Len(ret.v) = Offset(arg.segs, Len(arg.segs) + 1)
       /\ \A i \in 1..Len(arg.segs) :
             \A j \in 1..SegCount(arg.segs[i]) :
                ret.codes[Offset(arg.segs, i) + j] = CodeOf(arg.segs[i].cmd)

(* with exactly one segment per absolute command, and Z only as the last *)
(* command, the outline does pair up                                     *)
SingleSegmentsPair ==
    (/\ op = "svg_path_parse"
     /\ WholeSegments(arg.segs)
     /\ OneSegmentEach(arg.segs)
     /\ \A i \in 1..(Len(arg.segs) - 1) : arg.segs[i].cmd # "Z"
     /\ \A i \in 1..Len(arg.segs) : ~is_lower(arg.segs[i].cmd))
    => /\ ret.kind = "path"
       /\ Len(ret.codes) = Len(ret.v)
       /\ \A i \in 1..Len(arg.segs) :
             \A j \in 1..SegCount(arg.segs[i]) :
                ret.codes[Offset(arg.segs, i) + j] = CodeOf(arg.segs[i].cmd)

(* ---- Beam.__post_init__ and _lookup_node ---- *)

MaxBeamNodes == 2

MaxSupports == 1

MaxDimensions == 1

(* Python objects carry their class; == between objects of different classes is *)
(* False (dataclass __eq__ answers NotImplemented, then identity decides)        *)
PyStr(text) == [cls |-> "str", text |-> text]

PyInt(n) == [cls |-> "int", n |-> n]

Label(text) == [cls |-> "Label", text |-> text]

(* Node(x, label) after Node.__post_init__ *)
LabelledNode(x, label) ==
    [cls |-> "Node", x |-> x,
     label |-> IF label = None THEN Label(None)
               ELSE IF label.cls = "str" THEN Label(Some(label.text))
               ELSE label]

(* Support(location, fixity) after Support.__post_init__ *)
Support(location) ==
    [cls |-> "Support",
     location |-> IF location.cls = "int" THEN LabelledNode(location.n, Label(None))
                  ELSE location,
     label |-> Label(None)]

py_eq(a, b) == a.cls = b.cls /\ a = b

(* next(generator) without a default: StopIteration when nothing matches *)
_lookup_node(node_label, beam_nodes) ==
    LET matches == {i \in 1..Len(beam_nodes) : py_eq(beam_nodes[i].label, node_label)}
    IN  IF matches = {} THEN Raise("StopIteration")
        ELSE [kind |-> "node", v |-> beam_nodes[CHOOSE i \in matches : \A j \in matches : i <= j],
              exc |-> ""]

RECURSIVE new_nodes(_)
new_nodes(entries) ==
    IF entries = <<>> THEN <<>>
    ELSE LET node == Head(entries)
         IN  IF node.cls = "int"
             THEN <<LabelledNode(node.n, Label(Some(ToString(node.n))))>> \o new_nodes(Tail(entries))
             ELSE IF node.cls = "Node" THEN <<node>> \o new_nodes(Tail(entries))
             ELSE new_nodes(Tail(entries))

BeamOf(beam_nodes, supports, dimensions) ==
    [kind |-> "beam", v |-> beam_nodes, exc |-> "", supports |-> supports,
     dimensions |-> dimensions]

RaiseIn(exc) == [kind |-> "raise", v |-> <<>>, exc |-> exc, supports |-> <<>>, dimensions |-> <<>>]

RECURSIVE dimensions_loop(_, _, _, _)
dimensions_loop(beam_nodes, supports, dimensions, processed_dimensions) ==
    IF dimensions = <<>> THEN BeamOf(beam_nodes, supports, processed_dimensions)
    ELSE LET loc == Head(dimensions)
             node == _lookup_node(loc, beam_nodes)
         IN  IF loc.cls = "Node"
             THEN dimensions_loop(beam_nodes, supports, Tail(dimensions),
                                  Append(processed_dimensions, loc))
             ELSE IF loc.cls = "int"
             THEN dimensions_loop(beam_nodes, supports, Tail(dimensions),
                                  Append(processed_dimensions, LabelledNode(loc.n, None)))
             ELSE IF node.kind = "raise" THEN RaiseIn(node.exc)
             ELSE dimensions_loop(beam_nodes, supports, Tail(dimensions),
                                  Append(processed_dimensions, node.v))

RECURSIVE supports_loop(_, _, _, _)
supports_loop(beam_nodes, supports, i, dimensions) ==
    IF i > Len(supports) THEN dimensions_loop(beam_nodes, supports, dimensions, <<>>)
    ELSE LET support == supports[i]
             node == _lookup_node(support, beam_nodes)
         IN  IF support.location.cls # "str"
             THEN supports_loop(beam_nodes, supports, i + 1, dimensions)
             ELSE IF node.kind = "raise" THEN RaiseIn(node.exc)
             ELSE supports_loop(beam_nodes, [supports EXCEPT ![i].location = node.v],
                                i + 1, dimensions)

(* Beam(nodes=..., supports=..., dimensions=...) *)
Beam(beam_nodes, supports, dimensions) ==
    supports_loop(new_nodes(beam_nodes), supports, 1, dimensions)

NodeA == LabelledNode(0, PyStr("A"))

NodeB == LabelledNode(4, PyStr("B"))

NodeEntries == {NodeA, NodeB, PyInt(4), PyStr("A")}

Locations == {NodeA, PyInt(4), PyStr("A"), PyStr("Z")}

AddNode(entry) ==
    /\ op = "init"
    /\ Len(arg.nodes) < MaxBeamNodes
    /\ arg' = [arg EXCEPT !.nodes = Append(@, entry)]
    /\ UNCHANGED <<nodes, loads, op, ret>>

AddSupport(location) ==
    /\ op = "init"
    /\ Len(arg.supports) < MaxSupports
    /\ arg' = [arg EXCEPT !.supports = Append(@, Support(location))]
    /\ UNCHANGED <<nodes, loads, op, ret>>

AddDimension(loc) ==
    /\ op = "init"
    /\ Len(arg.dimensions) < MaxDimensions
    /\ arg' = [arg EXCEPT !.dimensions = Append(@, loc)]
    /\ UNCHANGED <<nodes, loads, op, ret>>

Construct ==
    /\ op = "init"
    /\ op' = "Beam"
    /\ ret' = Beam(arg.nodes, arg.supports, arg.dimensions)
    /\ UNCHANGED <<nodes, loads, arg>>

InitBeam ==
    /\ nodes = <<>>
    /\ loads = <<>>
    /\ op = "init"
    /\ arg = [nodes |-> <<>>, supports |-> <<>>, dimensions |-> <<>>]
    /\ ret = RaiseIn("")

NextBeam ==
    \/ \E entry \in NodeEntries : AddNode(entry)
    \/ \E location \in Locations : AddSupport(location)
    \/ \E loc \in Locations : AddDimension(loc)
    \/ Construct

SpecBeam == InitBeam /\ [][NextBeam]_vars

(* ---- claims about Beam construction ---- *)

(* the label strings among the support locations and dimension entries *)
LabelStrings(a) ==
    {a.supports[i].location.text : i \in {j \in 1..Len(a.supports) : a.supports[j].location.cls = "str"}}
    \cup {a.dimensions[i].text : i \in {j \in 1..Len(a.dimensions) : a.dimensions[j].cls = "str"}}

Carried(text, beam_nodes) ==
    \E i \in 1..Len(beam_nodes) : beam_nodes[i].label.text = Some(text)

IsNodeLabelled(entry, text, beam_nodes) ==
    /\ \E i \in 1..Len(beam_nodes) : beam_nodes[i] = entry
    /\ entry.label.text = Some(text)

(* C15: constructing a Beam turns every support location and dimension entry     *)
(* given as a label string into the node of the beam that carries that label     *)
(* text; when some string is carried by no node the construction fails with the  *)
(* unresolved-reference ValueError.                                              *)
C15_LabelsResolved ==
    (op = "Beam" /\ LabelStrings(arg) # {})
    => IF \A text \in LabelStrings(arg) : Carried(text, new_nodes(arg.nodes))
       THEN /\ ret.kind = "beam"
            /\ \A i \in 1..Len(arg.supports) :
                  arg.supports[i].location.cls = "str" =>
                     IsNodeLabelled(ret.supports[i].location, arg.supports[i].location.text, ret.v)
            /\ Len(ret.dimensions) = Len(arg.dimensions)
            /\ \A i \in 1..Len(arg.dimensions) :
                  arg.dimensions[i].cls = "str" =>
                     IsNodeLabelled(ret.dimensions[i], arg.dimensions[i].text, ret.v)
       ELSE ret = RaiseIn("ValueError")

(* without label strings the construction succeeds *)
NoStringsConstructs ==
    (op = "Beam" /\ LabelStrings(arg) = {}) => ret.kind = "beam"

(* ---- arrow_at_coordinate, distributed_load_region and the drawing of loads ---- *)

N_ARROWS == 7

Alphas == {0, 90}

(* math.cos / math.sin of math.radians(d) for whole quarter turns, without the *)
(* rounding of the floats (cos of a right angle is 6e-17 there)                *)
cos_deg(d) ==
    CASE d % 360 = 0 -> R(1)
      [] d % 360 = 180 -> R(-1)
      [] OTHER -> RZero

sin_deg(d) ==
    CASE d % 360 = 90 -> R(1)
      [] d % 360 = 270 -> R(-1)
      [] OTHER -> RZero

FancyArrow(x, y, dx, dy, head_width, head_length) ==
    [cls |-> "FancyArrow", x |-> x, y |-> y, dx |-> dx, dy |-> dy,
     head_width |-> head_width, head_length |-> head_length]

arrow_at_coordinate(point, magnitude, angle) ==
    LET pt_x == point[1]
        pt_y == point[2]
        v_x == cos_deg(90 - angle)
        v_y == sin_deg(90 - angle)
        dx == RMul(RNeg(v_x), magnitude)
        dy == RMul(RNeg(v_y), magnitude)
        x == RAdd(pt_x, RNeg(dx))
        y == RAdd(pt_y, RNeg(dy))
    IN  FancyArrow(x, y, dx, dy, RDiv(magnitude, R(10)), RDiv(magnitude, R(6)))

Polygon(xy) == [cls |-> "Polygon", xy |-> xy]

Region(distributed_patch, arrows) ==
    [kind |-> "region", v |-> <<distributed_patch>> \o arrows, exc |-> ""]

distributed_load_region(beam_length, start_magnitude, start_loc, end_magnitude, end_loc, top_of_beam) ==
    LET region == end_loc - start_loc
    IN  IF beam_length = 0 THEN Raise("ZeroDivisionError")
        ELSE
          LET n_arrows == IF RLt(RDiv(R(region), R(beam_length)), Rat(1, 2)) THEN 5
                          ELSE N_ARROWS
              xy == <<<<R(start_loc), top_of_beam>>, <<R(start_loc), start_magnitude>>,
                      <<R(end_loc), end_magnitude>>, <<R(end_loc), top_of_beam>>>>
              x_interval == RDiv(R(region), R(n_arrows - 1))
              x_coord(arrow_idx) == RAdd(RMul(R(arrow_idx), x_interval), R(start_loc))
              arrow_magnitude(arrow_idx) ==
                  RAdd(RMul(RDiv(RAdd(end_magnitude, RNeg(start_magnitude)), R(region)),
                            RAdd(x_coord(arrow_idx), RNeg(start_magnitude))),
                       start_magnitude)
          IN  IF region = 0 THEN Raise("ZeroDivisionError")
              ELSE Region(Polygon(xy),
                          [k \in 1..n_arrows |->
                              arrow_at_coordinate(<<x_coord(k - 1), top_of_beam>>,
                                                  arrow_magnitude(k - 1), 0)])

(* one load drawn: the arguments handed to the drawing step and its patches *)
DrawnLoad(magnitude, angle, patch_list) ==
    [magnitude |-> magnitude, angle |-> angle, patches |-> patch_list]

RECURSIVE draw_loads_loop(_, _, _, _, _, _, _)
draw_loads_loop(ls, i, scaling_loads, max_depth, beam_length, y, drawn) ==
    IF i > Len(ls) THEN Drawn("ok", drawn, "")
    ELSE
      LET load == ls[i]
          load_type == classify_load(load)
          display_magnitude == get_scaled_magnitude(load, scaling_loads, max_depth)
          x == R(load.start_location)
          start_magnitude == display_magnitude.v[1]
          end_magnitude == IF display_magnitude.kind = "tuple" THEN display_magnitude.v[2]
                           ELSE display_magnitude.v[1]
          region == distributed_load_region(beam_length, start_magnitude, load.start_location,
                                            end_magnitude, load.end_location[1], y)
      IN  IF display_magnitude.kind = "raise"
          THEN Drawn("raise", drawn, display_magnitude.exc)
          ELSE IF load_type = "POINT"
          THEN draw_loads_loop(ls, i + 1, scaling_loads, max_depth, beam_length, y,
                   Append(drawn,
                          DrawnLoad(display_magnitude.v[1], load.alpha,
                                    <<arrow_at_coordinate(<<x, y>>, display_magnitude.v[1],
                                                          load.alpha)>>)))
          ELSE IF load_type = "DISTRIBUTED"
          THEN IF region.kind = "raise" THEN Drawn("raise", drawn, region.exc)
               ELSE draw_loads_loop(ls, i + 1, scaling_loads, max_depth, beam_length, y,
                        Append(drawn, DrawnLoad(start_magnitude, 0, region.v)))
          ELSE draw_loads_loop(ls, i + 1, scaling_loads, max_depth, beam_length, y, drawn)

(* BeamPlotter.add_loads, with the patches it adds to the axes *)
add_loads_patches(beam_nodes, beam_loads, beam_depth) ==
    LET scaling_loads == max_load_magnitudes(beam_loads)
        y == RDiv(R(beam_depth), R(2))
    IN  IF scaling_loads.kind = "raise" THEN Drawn("raise", <<>>, scaling_loads.exc)
        ELSE draw_loads_loop(beam_loads, 1, scaling_loads.v,
                             max_load_depth(beam_depth, beam_nodes),
                             length(beam_nodes), y, <<>>)

PointLoads ==
    {[Load(m, s, None, None, FALSE) EXCEPT !.alpha = a] :
        m \in {-2, 1, 2}, s \in {0, 3}, a \in Alphas}

DistributedLoads ==
    {Load(1, s, Some(el), em, FALSE) : s \in {0, 3}, el \in {3, 4}, em \in EndMags}

DrawableLoads == PointLoads \cup DistributedLoads

AppendDrawableLoad(l) ==
    /\ op = "init"
    /\ Len(loads) < MaxLoads
    /\ loads' = Append(loads, l)
    /\ UNCHANGED <<nodes, op, arg, ret>>

AddLoadsPatches(d) ==
    /\ op = "init"
    /\ op' = "add_loads"
    /\ arg' = <<d>>
    /\ ret' = add_loads_patches(nodes, loads, d)
    /\ UNCHANGED <<nodes, loads>>

DistributedLoadRegion(start_magnitude, start_loc, end_magnitude, end_loc) ==
    /\ op = "init"
    /\ op' = "distributed_load_region"
    /\ arg' = <<length(nodes), start_magnitude, start_loc, end_magnitude, end_loc>>
    /\ ret' = distributed_load_region(length(nodes), start_magnitude, start_loc,
                                      end_magnitude, end_loc, RZero)
    /\ UNCHANGED <<nodes, loads>>

InitDraw ==
    /\ nodes = DefaultNodes
    /\ loads = <<>>
    /\ op = "init"
    /\ arg = NoArg
    /\ ret = NoRet

NextDraw ==
    \/ \E l \in DrawableLoads : AppendDrawableLoad(l)
    \/ \E d \in BeamDepths : AddLoadsPatches(d)
    \/ \E sm \in Depths, em \in Depths, sl \in {0, 3}, el \in {3, 4} :
          DistributedLoadRegion(sm, sl, em, el)

SpecDraw == InitDraw /\ [][NextDraw]_vars

(* ---- claims about the drawing of loads ---- *)

(* where an arrow points: the signs of its dx and dy *)
Sign(r) == IF r[1] > 0 THEN 1 ELSE IF r[1] < 0 THEN -1 ELSE 0

Direction(arrow) == <<Sign(arrow.dx), Sign(arrow.dy)>>

(* C16: when add_loads has drawn its loads, each point load's arrow was given    *)
(* exactly load.alpha as its angle, and two point loads of opposite magnitudes   *)
(* -m and +m at the same location and alpha have arrows of different direction.  *)
C16_SignAndAlphaReachArrow ==
    (op = "add_loads" /\ ret.kind = "ok")
    => /\ \A i \in 1..Len(loads) :
             classify_load(loads[i]) = "POINT" => ret.v[i].angle = loads[i].alpha
       /\ \A i, j \in 1..Len(loads) :
             (/\ classify_load(loads[i]) = "POINT"
              /\ classify_load(loads[j]) = "POINT"
              /\ loads[i].start_location = loads[j].start_location
              /\ loads[i].alpha = loads[j].alpha
              /\ loads[i].magnitude = -loads[j].magnitude)
             => Direction(ret.v[i].patches[1]) # Direction(ret.v[j].patches[1])

(* the angle does reach the arrow unchanged *)
AlphaReachesArrow ==
    (op = "add_loads" /\ ret.kind = "ok")
    => \A i \in 1..Len(loads) :
          classify_load(loads[i]) = "POINT" => ret.v[i].angle = loads[i].alpha

(* C17: a distributed load whose end_location equals its start_location, on a    *)
(* beam of positive length, is scaled and drawn without a ZeroDivisionError,     *)
(* both in add_loads and in a direct call of distributed_load_region.            *)
C17_ZeroRegionNoDivision ==
    /\ (/\ op = "distributed_load_region"
        /\ arg[1] > 0
        /\ arg[5] = arg[3])
       => ret.exc # "ZeroDivisionError"
    /\ (/\ op = "add_loads"
        /\ length(nodes) > 0
        /\ \A i \in 1..Len(loads) : loads[i].magnitude # 0)
       => ret.exc # "ZeroDivisionError"

(* a region of positive length on a beam of positive length is drawn *)
PositiveRegionDrawn ==
    (op = "distributed_load_region" /\ arg[1] > 0 /\ arg[5] > arg[3])
    => /\ ret.kind = "region"
       /\ Len(ret.v) \in {6, 8}

(* ---- nodes_from_spans ---- *)

MaxSpans == 3

SpanValues == {0, 3, 4}

LabelTexts == <<"A", "B", "C", "D", "E">>

make_label(label) ==
    IF label.cls = "str" THEN Label(Some(label.text))
    ELSE IF label.cls = "Label" THEN label
    ELSE Label(None)

NodesOf(node_list) == [kind |-> "nodes", v |-> node_list, exc |-> ""]

(* labels is None here, or Some(list); an empty list counts as no labels. After *)
(* labels.pop(0) the label of the span at index idx is the original idx + 2     *)
nodes_from_spans(spans, labels) ==
    LET given == labels # None /\ labels[1] # <<>>
        prev_span == 0
        N00 == [LabelledNode(0, None) EXCEPT
                   !.label = IF given THEN make_label(labels[1][1]) ELSE None]
    IN  IF given /\ Len(labels[1]) # Len(spans) + 1 THEN Raise("ValueError")
        ELSE NodesOf(<<N00>> \o
                     [idx \in 1..Len(spans) |->
                         LabelledNode(spans[idx] - prev_span,
                                      IF given THEN make_label(labels[1][idx + 1]) ELSE None)])

AppendSpan(span) ==
    /\ op = "init"
    /\ Len(arg.spans) < MaxSpans
    /\ arg' = [arg EXCEPT !.spans = Append(@, span)]
    /\ UNCHANGED <<nodes, loads, op, ret>>

SetLabels(n) ==
    /\ op = "init"
    /\ arg.labels = None
    /\ arg' = [arg EXCEPT !.labels = Some([k \in 1..n |-> PyStr(LabelTexts[k])])]
    /\ UNCHANGED <<nodes, loads, op, ret>>

(* nodes = nodes_from_spans(spans, labels); beam = Beam(nodes, [], dimensions=[]) *)
NodesFromSpans ==
    /\ op = "init"
    /\ op' = "nodes_from_spans"
    /\ ret' = nodes_from_spans(arg.spans, arg.labels)
    /\ nodes' = IF ret'.kind = "nodes" THEN Beam(ret'.v, <<>>, <<>>).v ELSE nodes
    /\ UNCHANGED <<loads, arg>>

InitSpans ==
    /\ nodes = <<>>
    /\ loads = <<>>
    /\ op = "init"
    /\ arg = [spans |-> <<>>, labels |-> None]
    /\ ret = NoRet

NextSpans ==
    \/ \E span \in SpanValues : AppendSpan(span)
    \/ \E n \in 0..(MaxSpans + 2) : SetLabels(n)
    \/ NodesFromSpans

SpecSpans == InitSpans /\ [][NextSpans]_vars

(* ---- claims about nodes_from_spans ---- *)

LabelsFit(a) ==
    a.labels = None \/ a.labels[1] = <<>> \/ Len(a.labels[1]) = Len(a.spans) + 1

(* C18: for non-negative spans (with no labels, or one label per node),          *)
(* nodes_from_spans returns len(spans) + 1 nodes, the first at x = 0 and the     *)
(* others at the running totals of the spans, and the beam built on them has     *)
(* get_spans() equal to the spans and length equal to their sum.                 *)
C18_SpansRoundTrip ==
    (op = "nodes_from_spans" /\ LabelsFit(arg))
    => /\ ret.kind = "nodes"
       /\ Len(ret.v) = Len(arg.spans) + 1
       /\ ret.v[1].x = 0
       /\ \A i \in 1..Len(arg.spans) : ret.v[i + 1].x = ret.v[i].x + arg.spans[i]
       /\ get_spans(nodes) = arg.spans
       /\ length(nodes) = sum(arg.spans)

(* with at most one span the round trip holds *)
OneSpanRoundTrip ==
    (op = "nodes_from_spans" /\ LabelsFit(arg) /\ Len(arg.spans) <= 1)
    => /\ ret.kind = "nodes"
       /\ ret.v[1].x = 0
       /\ get_spans(nodes) = arg.spans
       /\ length(nodes) = sum(arg.spans)

(* a label list of the wrong length is refused *)
WrongLabelCountRefused ==
    (op = "nodes_from_spans" /\ ~LabelsFit(arg)) => ret = Raise("ValueError")

====
